---- MODULE Spec2Model ----
(***************************************************************************)
(* The three single-page EDA dashboards app.py, app1.py and app2.py: the   *)
(* uploaded CSV, the data frame pandas builds from it, the five analysis   *)
(* views of render_tab, the boxplot callback update_boxplot, and the way   *)
(* Dash runs these callbacks when the user uploads a file, selects a tab   *)
(* or selects a boxplot column.                                            *)
(*                                                                         *)
(* Numbers are integers.  Quartiles and fences are carried in eighths      *)
(* (the value times 8), which is exact for the quantile levels 0.25 and    *)
(* 0.75 and the factor 1.5 over integer data, as it is in the floats the   *)
(* code uses.                                                              *)
(***************************************************************************)
EXTENDS Integers, Sequences, FiniteSets, TLC

VARIABLES variant, contents, stored, tab, tabContent, ddPresent, ddOptions,
          ddStyle, ddValue, filterOptions, figure, graphStyle, pending, crashed,
          storedOf, contentOf, figureOf

vars == <<variant, contents, stored, tab, tabContent, ddPresent, ddOptions,
          ddStyle, ddValue, filterOptions, figure, graphStyle, pending, crashed,
          storedOf, contentOf, figureOf>>

(***************************************************************************)
(* Values.  A cell of a CSV file or of a data frame is a number, a text or *)
(* missing (an empty CSV cell, NaN, JSON null, None).                      *)
(***************************************************************************)
Num(n) == [k |-> "num", n |-> n, s |-> ""]
Str(s) == [k |-> "str", n |-> 0, s |-> s]
Null == [k |-> "null", n |-> 0, s |-> ""]

\* Python's None for an optional value, and a present value.
None == <<>>
Some(x) == <<x>>

Min(a, b) == IF a < b THEN a ELSE b

Indices(s) == [i \in 1..Len(s) |-> i]

\* s[mask]: the members of s at the positions where the boolean mask holds, in
\* order.
Pick(s, mask) ==
    LET idx == SelectSeq(Indices(s), LAMBDA i : mask[i])
    IN [j \in 1..Len(idx) |-> s[idx[j]]]

(***************************************************************************)
(* pandas.                                                                 *)
(***************************************************************************)
\* df.shape
shape(df) == <<Len(df.rows), Len(df.columns)>>

\* pd.read_csv over the decoded upload: the first line is the header, a column
\* whose non-empty cells all parse as numbers is numeric (an all-empty column of
\* a file with rows is float64), any other column keeps its cells as text, and
\* the columns of a file without rows are object columns.
read_csv(file) ==
    LET n == Len(file.cols)
        isNumber(i) == /\ file.rows # <<>>
                       /\ \A r \in 1..Len(file.rows) : file.rows[r][i].k # "str"
        cell(c, i) == IF c.k = "num" /\ ~isNumber(i) THEN Str(ToString(c.n)) ELSE c
    IN [columns |-> file.cols,
        dtypes  |-> [i \in 1..n |-> IF isNumber(i) THEN "number" ELSE "object"],
        rows    |-> [r \in 1..Len(file.rows) |->
                        [i \in 1..n |-> cell(file.rows[r][i], i)]]]

\* parse_contents(contents): split off the data-URL prefix, base64-decode, decode
\* UTF-8 and read the CSV.
parse_contents(c) == read_csv(c[1])

\* df.to_dict("records"), as the dcc.Store holds it: one dict per row, keyed by
\* column name in column order, NaN stored as null.  A frame without rows gives
\* the empty list, which names no column.
to_dict_records(df) ==
    [r \in 1..Len(df.rows) |->
        [i \in 1..Len(df.columns) |-> [name |-> df.columns[i], val |-> df.rows[r][i]]]]

\* pd.DataFrame(data) over a list of records: the columns are the keys of the
\* records; a column holding numbers (and nulls) is numeric, a column holding a
\* text or nothing but nulls is an object column; the empty list gives a frame
\* with no columns and no rows.
DataFrame(data) ==
    IF data = <<>> THEN [columns |-> <<>>, dtypes |-> <<>>, rows |-> <<>>]
    ELSE LET n == Len(data[1])
             isNumber(i) == /\ \A r \in 1..Len(data) : data[r][i].val.k # "str"
                            /\ \E r \in 1..Len(data) : data[r][i].val.k = "num"
         IN [columns |-> [i \in 1..n |-> data[1][i].name],
             dtypes  |-> [i \in 1..n |-> IF isNumber(i) THEN "number" ELSE "object"],
             rows    |-> [r \in 1..Len(data) |-> [i \in 1..n |-> data[r][i].val]]]

\* df.select_dtypes(include=["number"]).columns
num_cols(df) ==
    Pick(df.columns, [i \in 1..Len(df.columns) |-> df.dtypes[i] = "number"])

\* df.select_dtypes(exclude=["number"]).columns
cat_cols(df) ==
    Pick(df.columns, [i \in 1..Len(df.columns) |-> df.dtypes[i] # "number"])

HasColumn(df, c) == \E i \in 1..Len(df.columns) : df.columns[i] = c

ColumnIndex(df, c) == CHOOSE i \in 1..Len(df.columns) : df.columns[i] = c

\* df[column]
Column(df, c) == [r \in 1..Len(df.rows) |-> df.rows[r][ColumnIndex(df, c)]]

\* df.head()
HeadRows == 5
head(df) == SubSeq(df.rows, 1, Min(HeadRows, Len(df.rows)))

\* df.isnull().sum().reset_index(): one (Feature, Missing Values) row per column.
missing_data(df) ==
    [i \in 1..Len(df.columns) |->
        [Feature |-> df.columns[i],
         Missing |-> Cardinality({r \in 1..Len(df.rows) : df.rows[r][i].k = "null"})]]

\* df.duplicated(keep=False): every member of a group of equal rows is marked.
duplicated_keep_false(df) ==
    [r \in 1..Len(df.rows) |->
        \E q \in 1..Len(df.rows) : q # r /\ df.rows[q] = df.rows[r]]

\* df.duplicated(): keep="first", so a row is marked when an earlier row has the
\* same value in every column, missing values counting as equal.
duplicated(df) ==
    [r \in 1..Len(df.rows) |-> \E q \in 1..(r - 1) : df.rows[q] = df.rows[r]]

\* df[df.duplicated()]
duplicate_rows(df) == Pick(df.rows, duplicated(df))

\* df.duplicated().sum()
duplicate_count(df) ==
    LET marked == duplicated(df)
    IN Cardinality({r \in 1..Len(df.rows) : marked[r]})

\* quantile with interpolation="lower": the entry below the position.
quantile_lower(series, quarter) ==
    LET present == SelectSeq(series, LAMBDA c : c.k = "num")
        sorted  == SortSeq([j \in 1..Len(present) |-> present[j].n],
                           LAMBDA a, b : a < b)
        n    == Len(sorted)
        lo   == ((quarter * (n - 1)) \div 4) + 1
    IN IF n = 0 THEN [nan |-> TRUE, x8 |-> 0]
       ELSE [nan |-> FALSE, x8 |-> 8 * sorted[lo]]

\* Series.quantile(q) for q = quarter/4, times 8: missing values are skipped, the
\* rest sorted, the position is q*(n-1) and the result interpolates linearly
\* between the two entries around it.  No values: NaN.
quantile(series, quarter) ==
    LET present == SelectSeq(series, LAMBDA c : c.k = "num")
        sorted  == SortSeq([j \in 1..Len(present) |-> present[j].n],
                           LAMBDA a, b : a < b)
        n    == Len(sorted)
        pos  == quarter * (n - 1)
        lo   == (pos \div 4) + 1
        frac == pos % 4
    IN IF n = 0 THEN [nan |-> TRUE, x8 |-> 0]
       ELSE IF frac = 0 THEN [nan |-> FALSE, x8 |-> 8 * sorted[lo]]
       ELSE [nan |-> FALSE,
             x8 |-> 8 * sorted[lo] + 2 * frac * (sorted[lo + 1] - sorted[lo])]

(***************************************************************************)
(* update_boxplot's outlier detection (app2.py).  A comparison with NaN,   *)
(* or of a missing value, is False.                                        *)
(***************************************************************************)
Q1(df, column) == quantile(Column(df, column), 1)

Q3(df, column) == quantile(Column(df, column), 3)

IQR(df, column) ==
    [nan |-> Q1(df, column).nan, x8 |-> Q3(df, column).x8 - Q1(df, column).x8]

lower_bound(df, column) ==
    [nan |-> IQR(df, column).nan,
     x8  |-> Q1(df, column).x8 - (3 * IQR(df, column).x8) \div 2]

upper_bound(df, column) ==
    [nan |-> IQR(df, column).nan,
     x8  |-> Q3(df, column).x8 + (3 * IQR(df, column).x8) \div 2]

\* df[column] < bound on one cell
Below(c, bound) == c.k = "num" /\ ~bound.nan /\ 8 * c.n < bound.x8

\* df[column] >= bound in place of df[column] > bound.
AboveInclusive(c, bound) == c.k = "num" /\ ~bound.nan /\ 8 * c.n >= bound.x8

\* df[column] > bound on one cell
Above(c, bound) == c.k = "num" /\ ~bound.nan /\ 8 * c.n > bound.x8

\* df[(df[column] < lower_bound) | (df[column] > upper_bound)]
outliers(df, column) ==
    LET y  == Column(df, column)
        lo == lower_bound(df, column)
        hi == upper_bound(df, column)
    IN Pick(df.rows, [r \in 1..Len(y) |-> Below(y[r], lo) \/ Above(y[r], hi)])

(***************************************************************************)
(* The callbacks.  Each returns what it returns to Dash, or the exception  *)
(* it raises (error # "").  A correlation heatmap is represented by its    *)
(* axis labels, the columns df[num_cols].corr() is indexed by.             *)
(***************************************************************************)
Tabs == {"overview", "correlation", "boxplots", "missing", "duplicates"}

Raise(e) == [error |-> e]

Prompt == [kind |-> "prompt"]

NotFound == [kind |-> "notfound"]

\* The "duplicates" view: the count, and the table of flagged rows when there
\* are any ("No duplicate records found." otherwise).
DuplicatesView(df) ==
    [kind  |-> "duplicates",
     count |-> duplicate_count(df),
     table |-> IF duplicate_count(df) > 0 THEN Some(duplicate_rows(df)) ELSE None]

\* The "missing" view: px.bar over missing_data.
MissingView(df) == [kind |-> "bar", data |-> missing_data(df)]

\* process_file answering the empty list where the code answers None.
process_file_empty_list(c) ==
    IF c = None THEN Some(<< >>)
    ELSE Some(to_dict_records(read_csv(c[1])))

\* process_file (app.py)
process_file(c) ==
    IF c = None THEN None
    ELSE Some(to_dict_records(read_csv(c[1])))

\* render_tab (app.py)
render_tab_app(selected_tab, data) ==
    IF data = None THEN [error |-> "", children |-> Prompt]
    ELSE LET df == DataFrame(data[1])
         IN CASE selected_tab = "overview" ->
                   [error |-> "",
                    children |-> [kind |-> "overview", preview |-> head(df),
                                  columns |-> df.columns,
                                  rows |-> shape(df)[1], cols |-> shape(df)[2],
                                  numerical |-> Len(num_cols(df)),
                                  categorical |-> Len(cat_cols(df))]]
              [] selected_tab = "correlation" ->
                   IF Len(num_cols(df)) = 0
                   THEN [error |-> "", children |-> [kind |-> "warning"]]
                   ELSE [error |-> "",
                         children |-> [kind |-> "heatmap", labels |-> num_cols(df)]]
              [] selected_tab = "boxplots" ->
                   IF num_cols(df) = <<>> THEN Raise("IndexError")
                   ELSE [error |-> "",
                         children |-> [kind |-> "boxplots", options |-> num_cols(df),
                                       value |-> Some(num_cols(df)[1])]]
              [] selected_tab = "missing" ->
                   [error |-> "", children |-> MissingView(df)]
              [] selected_tab = "duplicates" ->
                   [error |-> "", children |-> DuplicatesView(df)]
              [] OTHER -> [error |-> "", children |-> NotFound]

\* render_tab (app1.py): the second output is the column-filter option list.
render_tab_app1(selected_tab, c) ==
    IF c = None THEN [error |-> "", children |-> Prompt, options |-> <<>>]
    ELSE LET df == parse_contents(c)
             column_options == df.columns
         IN CASE selected_tab = "overview" ->
                   [error |-> "",
                    children |-> [kind |-> "overview", preview |-> head(df),
                                  columns |-> df.columns,
                                  rows |-> shape(df)[1], cols |-> shape(df)[2],
                                  numerical |-> Len(num_cols(df)),
                                  categorical |-> Len(cat_cols(df))],
                    options |-> column_options]
              [] selected_tab = "correlation" ->
                   [error |-> "",
                    children |-> [kind |-> "heatmap", labels |-> num_cols(df)],
                    options |-> column_options]
              [] selected_tab = "boxplots" ->
                   [error |-> "",
                    children |-> [kind |-> "boxplots", options |-> column_options,
                                  value |-> None],
                    options |-> column_options]
              [] selected_tab = "missing" ->
                   [error |-> "", children |-> MissingView(df),
                    options |-> column_options]
              [] selected_tab = "duplicates" ->
                   [error |-> "", children |-> DuplicatesView(df),
                    options |-> column_options]
              [] OTHER ->
                   [error |-> "", children |-> NotFound, options |-> column_options]

\* render_tab (app2.py): the second and third outputs are the options and the
\* style of the boxplot-column dropdown.
render_tab_app2(selected_tab, c) ==
    IF c = None
    THEN [error |-> "", children |-> Prompt, options |-> <<>>, style |-> "none"]
    ELSE LET df == parse_contents(c)
             column_options == num_cols(df)
         IN CASE selected_tab = "overview" ->
                   [error |-> "",
                    children |-> [kind |-> "overview", preview |-> head(df),
                                  columns |-> df.columns,
                                  rows |-> shape(df)[1], cols |-> shape(df)[2]],
                    options |-> <<>>, style |-> "none"]
              [] selected_tab = "correlation" ->
                   [error |-> "",
                    children |-> [kind |-> "heatmap", labels |-> num_cols(df)],
                    options |-> <<>>, style |-> "none"]
              [] selected_tab = "boxplots" ->
                   [error |-> "", children |-> [kind |-> "boxplots_title"],
                    options |-> column_options, style |-> "block"]
              [] selected_tab = "missing" ->
                   [error |-> "", children |-> MissingView(df),
                    options |-> <<>>, style |-> "none"]
              [] selected_tab = "duplicates" ->
                   [error |-> "", children |-> DuplicatesView(df),
                    options |-> <<>>, style |-> "none"]
              [] OTHER ->
                   [error |-> "", children |-> NotFound,
                    options |-> <<>>, style |-> "none"]

\* px.box(df, y=column): plotly refuses a column name the frame does not have.
box(df, column) ==
    IF ~HasColumn(df, column) THEN Raise("ValueError")
    ELSE [error |-> "",
          figure |-> [kind |-> "box", column |-> column, y |-> Column(df, column)]]

\* update_boxplot (app.py)
update_boxplot_app(column, data) ==
    IF data = None \/ column = None
    THEN [error |-> "", figure |-> [kind |-> "no_data"]]
    ELSE box(DataFrame(data[1]), column[1])

\* update_boxplot (app1.py)
update_boxplot_app1(column, c) ==
    IF c = None \/ column = None
    THEN [error |-> "", figure |-> [kind |-> "empty"]]
    ELSE box(parse_contents(c), column[1])

\* update_boxplot (app2.py).  df[column] raises KeyError for a column the frame
\* does not have, and quantile raises TypeError over text values; the second
\* trace of the figure holds the outlier rows' values.
update_boxplot_app2(column, c) ==
    IF c = None \/ column = None
    THEN [error |-> "", figure |-> [kind |-> "empty"], style |-> "none"]
    ELSE LET df == parse_contents(c)
             col == column[1]
         IN IF ~HasColumn(df, col) THEN Raise("KeyError")
            ELSE IF \E r \in 1..Len(df.rows) : Column(df, col)[r].k = "str"
            THEN Raise("TypeError")
            ELSE [error |-> "",
                  figure |-> [kind |-> "box", column |-> col, y |-> Column(df, col),
                              outliers |-> outliers(df, col)],
                  style |-> "block"]

(***************************************************************************)
(* The uploaded files.                                                     *)
(***************************************************************************)
File(cols, rows) == [cols |-> cols, rows |-> rows]

\* The scenario of the specification: columns A, B and four rows.
ScenarioFile ==
    File(<<"A", "B">>, << <<Num(1), Num(10)>>, <<Num(2), Num(20)>>,
                          <<Num(1), Num(10)>>, <<Num(100), Num(5)>> >>)

\* Text columns only.
TextFile ==
    File(<<"A", "B">>, << <<Str("x"), Str("y")>>, <<Str("x"), Str("y")>> >>)

\* A header and no rows.
HeaderFile == File(<<"A", "B">>, << >>)

\* Other column names, missing values in both columns, a repeated row.
OtherFile ==
    File(<<"C", "D">>, << <<Num(1), Null>>, <<Null, Str("x")>>,
                          <<Null, Str("x")>>, <<Num(3), Str("x")>> >>)

\* A column mixing a number with a text, and a column of empty cells.
MixedFile ==
    File(<<"A", "B">>, << <<Num(1), Null>>, <<Str("x"), Null>> >>)

\* Column A is 0, 0, -, 0, 2, 5: Q1 = 0 and Q3 = 2, so the upper bound is 5 and
\* the value 5 lies on it.
FenceFile ==
    File(<<"A", "B">>, << <<Num(0), Str("x")>>, <<Num(0), Str("x")>>,
                          <<Null, Str("x")>>, <<Num(0), Str("x")>>,
                          <<Num(2), Str("x")>>, <<Num(5), Str("x")>> >>)

\* Column A is 0, 0, 0, -, 0, 9: both bounds are 0, the zeros lie on them, 9 is
\* outside and one value is missing.
OutlierFile ==
    File(<<"A", "B">>, << <<Num(0), Str("x")>>, <<Num(0), Str("x")>>,
                          <<Num(0), Str("x")>>, <<Null, Str("x")>>,
                          <<Num(0), Str("y")>>, <<Num(9), Str("x")>> >>)

Files == {ScenarioFile, TextFile, HeaderFile, OtherFile, MixedFile, FenceFile,
          OutlierFile}

\* Every file with the header A,B and at most MaxRows rows over RowDomain.
MaxRows == 4

RowDomain ==
    {<<Num(0), Str("x")>>, <<Num(1), Str("x")>>, <<Null, Str("x")>>, <<Num(1), Null>>}

RECURSIVE RowsUpTo(_)
RowsUpTo(n) ==
    IF n = 0 THEN {<< >>}
    ELSE LET shorter == RowsUpTo(n - 1)
         IN shorter \cup {Append(rs, r) : rs \in {x \in shorter : Len(x) = n - 1},
                                          r \in RowDomain}

GenFiles == {File(<<"A", "B">>, rs) : rs \in RowsUpTo(MaxRows)}

(***************************************************************************)
(* The page.  Dash runs a callback when one of its Inputs changes and when *)
(* a component holding one of its Inputs is added to the page; a callback  *)
(* whose Input is the Output of a callback still to run waits for it; the  *)
(* Outputs of a callback that raises stay as they are.  The user acts on a *)
(* page whose callbacks have run; crashed names the callbacks that raised  *)
(* since the user last acted.                                              *)
(***************************************************************************)
Variants == {"app", "app1", "app2"}

Range(s) == {s[i] : i \in 1..Len(s)}

Settled == pending = {}

\* The upload behind what the callbacks read: behind the stored-data store in
\* app.py, the upload itself in app1.py and app2.py.
LoadedOf == IF variant = "app" THEN storedOf ELSE contents

\* The data frame the callbacks of a variant build from an uploaded file.
Frame(v, file) ==
    IF v = "app" THEN DataFrame(to_dict_records(read_csv(file)))
    ELSE read_csv(file)

\* The page as laid out (app.layout), with the callbacks Dash runs on page load.
Init ==
    /\ variant \in Variants
    /\ contents = None
    /\ stored = None
    /\ storedOf = None
    /\ tab = "overview"
    /\ tabContent = [kind |-> "blank"]
    /\ contentOf = None
    /\ ddPresent = (variant = "app2")
    /\ ddOptions = << >>
    /\ ddStyle = IF variant = "app2" THEN "none" ELSE "block"
    /\ ddValue = None
    /\ filterOptions = << >>
    /\ figure = [kind |-> "unset"]
    /\ figureOf = None
    /\ graphStyle = IF variant = "app2" THEN "none" ELSE "block"
    /\ pending = CASE variant = "app"  -> {"process_file", "render_tab"}
                   [] variant = "app1" -> {"render_tab"}
                   [] variant = "app2" -> {"render_tab", "update_boxplot"}
    /\ crashed = {}

\* dcc.Upload: the user drops a file.
UploadFile(f) ==
    /\ Settled
    /\ contents' = Some(f)
    /\ pending' = CASE variant = "app"  -> {"process_file"}
                    [] variant = "app1" ->
                         IF ddPresent THEN {"render_tab", "update_boxplot"}
                         ELSE {"render_tab"}
                    [] variant = "app2" -> {"render_tab", "update_boxplot"}
    /\ crashed' = {}
    /\ UNCHANGED <<variant, stored, storedOf, tab, tabContent, contentOf, ddPresent,
                   ddOptions, ddStyle, ddValue, filterOptions, figure, figureOf,
                   graphStyle>>

Upload == \E f \in Files : UploadFile(f)

\* dcc.Tabs: the user selects another tab (or a request carries an unknown value).
SelectTab ==
    \E t \in Tabs \cup {"unknown"} :
        /\ Settled
        /\ t # tab
        /\ tab' = t
        /\ pending' = {"render_tab"}
        /\ crashed' = {}
        /\ UNCHANGED <<variant, contents, stored, storedOf, tabContent, contentOf,
                       ddPresent, ddOptions, ddStyle, ddValue, filterOptions, figure,
                       figureOf, graphStyle>>

\* dcc.Dropdown boxplot-column: the user picks one of the options shown.
SelectColumn ==
    \E c \in Range(ddOptions) :
        /\ Settled
        /\ ddPresent /\ ddStyle = "block"
        /\ ddValue # Some(c)
        /\ ddValue' = Some(c)
        /\ pending' = {"update_boxplot"}
        /\ crashed' = {}
        /\ UNCHANGED <<variant, contents, stored, storedOf, tab, tabContent,
                       contentOf, ddPresent, ddOptions, ddStyle, filterOptions,
                       figure, figureOf, graphStyle>>

\* dcc.Dropdown boxplot-column: the user clears the selection.
ClearColumn ==
    /\ Settled
    /\ ddPresent /\ ddStyle = "block"
    /\ ddValue # None
    /\ ddValue' = None
    /\ pending' = {"update_boxplot"}
    /\ crashed' = {}
    /\ UNCHANGED <<variant, contents, stored, storedOf, tab, tabContent, contentOf,
                   ddPresent, ddOptions, ddStyle, filterOptions, figure, figureOf,
                   graphStyle>>

\* dcc.Dropdown boxplot-column of app2.py, whose options render_tab replaces while
\* no callback writes its value: the component may drop a value that is no
\* longer among its options (releases of dash-core-components differ in this),
\* and update_boxplot then runs for the changed value.
DropdownDropsValue ==
    /\ ddPresent
    /\ ddValue # None
    /\ ddValue[1] \notin Range(ddOptions)
    /\ ddValue' = None
    /\ pending' = pending \cup {"update_boxplot"}
    /\ UNCHANGED <<variant, contents, stored, storedOf, tab, tabContent, contentOf,
                   ddPresent, ddOptions, ddStyle, filterOptions, figure, figureOf,
                   graphStyle, crashed>>

\* The callback process_file of app.py runs.
ProcessFile ==
    /\ variant = "app"
    /\ "process_file" \in pending
    /\ stored' = process_file(contents)
    /\ storedOf' = contents
    /\ pending' = (pending \ {"process_file"}) \cup {"render_tab"}
    /\ UNCHANGED <<variant, contents, tab, tabContent, contentOf, ddPresent,
                   ddOptions, ddStyle, ddValue, filterOptions, figure, figureOf,
                   graphStyle, crashed>>

\* render_tab of the variant on the current inputs.
render_tab ==
    CASE variant = "app"  -> render_tab_app(tab, stored)
      [] variant = "app1" -> render_tab_app1(tab, contents)
      [] variant = "app2" -> render_tab_app2(tab, contents)

\* The callback render_tab runs.  In app.py and app1.py the boxplot dropdown and
\* graph are part of the tab content: rendering the boxplots view puts new ones
\* on the page (and update_boxplot runs for them), any other view removes them.
RenderTab ==
    /\ "render_tab" \in pending
    /\ "process_file" \notin pending
    /\ LET res == render_tab
       IN IF res.error # ""
          THEN /\ crashed' = crashed \cup {"render_tab"}
               /\ pending' = pending \ {"render_tab"}
               /\ UNCHANGED <<tabContent, contentOf, ddPresent, ddOptions, ddStyle,
                              ddValue, filterOptions, figure, figureOf>>
          ELSE /\ crashed' = crashed
               /\ tabContent' = res.children
               /\ contentOf' = LoadedOf
               /\ filterOptions' = IF variant = "app1" THEN res.options
                                   ELSE filterOptions
               /\ IF variant = "app2"
                  THEN /\ ddOptions' = res.options
                       /\ ddStyle' = res.style
                       /\ pending' = pending \ {"render_tab"}
                       /\ UNCHANGED <<ddPresent, ddValue, figure, figureOf>>
                  ELSE IF res.children.kind = "boxplots"
                  THEN /\ ddPresent' = TRUE
                       /\ ddOptions' = res.children.options
                       /\ ddValue' = res.children.value
                       /\ figure' = [kind |-> "unset"]
                       /\ figureOf' = None
                       /\ pending' = (pending \ {"render_tab"}) \cup {"update_boxplot"}
                       /\ UNCHANGED ddStyle
                  ELSE /\ ddPresent' = FALSE
                       /\ ddOptions' = << >>
                       /\ ddValue' = None
                       /\ figure' = [kind |-> "unset"]
                       /\ figureOf' = None
                       /\ pending' = pending \ {"render_tab", "update_boxplot"}
                       /\ UNCHANGED ddStyle
    /\ UNCHANGED <<variant, contents, stored, storedOf, tab, graphStyle>>

\* update_boxplot of the variant on the current inputs.
update_boxplot ==
    CASE variant = "app"  -> update_boxplot_app(ddValue, stored)
      [] variant = "app1" -> update_boxplot_app1(ddValue, contents)
      [] variant = "app2" -> update_boxplot_app2(ddValue, contents)

\* The callback update_boxplot runs.
UpdateBoxplot ==
    /\ "update_boxplot" \in pending
    /\ pending' = pending \ {"update_boxplot"}
    /\ LET res == update_boxplot
       IN IF res.error # ""
          THEN /\ crashed' = crashed \cup {"update_boxplot"}
               /\ UNCHANGED <<figure, figureOf, graphStyle>>
          ELSE /\ crashed' = crashed
               /\ figure' = res.figure
               /\ figureOf' = LoadedOf
               /\ graphStyle' = IF variant = "app2" THEN res.style ELSE graphStyle
    /\ UNCHANGED <<variant, contents, stored, storedOf, tab, tabContent, contentOf,
                   ddPresent, ddOptions, ddStyle, ddValue, filterOptions>>

Next ==
    \/ Upload
    \/ SelectTab
    \/ SelectColumn
    \/ ClearColumn
    \/ DropdownDropsValue
    \/ ProcessFile
    \/ RenderTab
    \/ UpdateBoxplot

Spec == Init /\ [][Next]_vars

(***************************************************************************)
(* The page after its first upload, for every small file: the page has     *)
(* loaded and shows the upload prompt, the user has dropped a file of      *)
(* GenFiles or Files, and the callbacks of that upload are about to run.   *)
(* From there the user selects tabs and columns.                           *)
(***************************************************************************)
InitOneUpload ==
    /\ variant \in Variants
    /\ contents \in {Some(f) : f \in GenFiles \cup Files}
    /\ stored = None
    /\ storedOf = None
    /\ tab = "overview"
    /\ tabContent = Prompt
    /\ contentOf = None
    /\ ddPresent = (variant = "app2")
    /\ ddOptions = << >>
    /\ ddStyle = IF variant = "app2" THEN "none" ELSE "block"
    /\ ddValue = None
    /\ filterOptions = << >>
    /\ figure = IF variant = "app2" THEN [kind |-> "empty"] ELSE [kind |-> "unset"]
    /\ figureOf = None
    /\ graphStyle = IF variant = "app2" THEN "none" ELSE "block"
    /\ pending = CASE variant = "app"  -> {"process_file"}
                   [] variant = "app1" -> {"render_tab"}
                   [] variant = "app2" -> {"render_tab", "update_boxplot"}
    /\ crashed = {}

NextOneUpload ==
    \/ SelectTab
    \/ SelectColumn
    \/ ClearColumn
    \/ DropdownDropsValue
    \/ ProcessFile
    \/ RenderTab
    \/ UpdateBoxplot

SpecOneUpload == InitOneUpload /\ [][NextOneUpload]_vars

(***************************************************************************)
(* Properties.                                                             *)
(***************************************************************************)
RECURSIVE SumSeq(_)
SumSeq(s) == IF s = << >> THEN 0 ELSE Head(s) + SumSeq(Tail(s))

\* s with x inserted after its first j members.
InsertAt(s, j, x) == SubSeq(s, 1, j) \o <<x>> \o SubSeq(s, j + 1, Len(s))

\* The boxplot of app2.py shows a column of the file it was computed from.
BoxplotShown == variant = "app2" /\ figure.kind = "box"

\* C1: the outlier report of update_boxplot (app2.py) has IQR = Q3 - Q1,
\* lower = Q1 - 1.5*IQR and upper = Q3 + 1.5*IQR over the column's non-null
\* values, and its outlier rows are exactly the rows whose value is strictly
\* below lower or strictly above upper, in order; a row whose value is on a
\* bound or missing is not among them.
C1_OutlierRule ==
    BoxplotShown =>
        LET df  == parse_contents(figureOf)
            col == figure.column
            y   == Column(df, col)
            q1  == Q1(df, col)
            q3  == Q3(df, col)
            iqr == IQR(df, col)
            lo  == lower_bound(df, col)
            hi  == upper_bound(df, col)
            hasValues == \E r \in 1..Len(y) : y[r].k = "num"
            outside(r) == /\ hasValues
                          /\ y[r].k = "num"
                          /\ (8 * y[r].n < lo.x8 \/ 8 * y[r].n > hi.x8)
        IN /\ hasValues =>
                /\ ~q1.nan /\ ~q3.nan /\ ~iqr.nan /\ ~lo.nan /\ ~hi.nan
                /\ iqr.x8 = q3.x8 - q1.x8
                /\ 2 * lo.x8 = 2 * q1.x8 - 3 * iqr.x8
                /\ 2 * hi.x8 = 2 * q3.x8 + 3 * iqr.x8
           /\ figure.outliers = Pick(df.rows, [r \in 1..Len(y) |-> outside(r)])
           /\ \A r \in 1..Len(y) :
                (y[r].k = "null" \/ 8 * y[r].n = lo.x8 \/ 8 * y[r].n = hi.x8)
                    => df.rows[r] \notin Range(figure.outliers)

\* A boxplot with an outlier row, a value on the upper bound and a missing value.
C1_Witness ==
    /\ BoxplotShown
    /\ figure.outliers # << >>
    /\ \E r \in 1..Len(figure.y) : figure.y[r].k = "null"
    /\ \E r \in 1..Len(figure.y) :
          /\ figure.y[r].k = "num"
          /\ 8 * figure.y[r].n =
                upper_bound(parse_contents(figureOf), figure.column).x8

\* The boxplot of column A of the scenario file.
ScenarioBoxplot ==
    BoxplotShown /\ figureOf = Some(ScenarioFile) /\ figure.column = "A"

\* C2, as stated: for the rows (1,10), (2,20), (1,10), (100,5) the outlier report
\* on column A has Q1 = 1 and Q3 = 2, and flags the value 100.
C2_ScenarioQuartilesAsClaimed ==
    ScenarioBoxplot =>
        /\ Q1(parse_contents(figureOf), "A") = [nan |-> FALSE, x8 |-> 8 * 1]
        /\ Q3(parse_contents(figureOf), "A") = [nan |-> FALSE, x8 |-> 8 * 2]
        /\ <<Num(100), Num(5)>> \in Range(figure.outliers)

\* C2, amended: for those rows the outlier report on column A has Q1 = 1 and
\* Q3 = 26.5 (position 0.75*3 = 2.25 of the sorted 1, 1, 2, 100), and the row
\* with the value 100 is the one outlier.
C2_ScenarioQuartiles ==
    ScenarioBoxplot =>
        /\ Q1(parse_contents(figureOf), "A") = [nan |-> FALSE, x8 |-> 8 * 1]
        /\ Q3(parse_contents(figureOf), "A") = [nan |-> FALSE, x8 |-> 4 * 53]
        /\ figure.outliers = << <<Num(100), Num(5)>> >>

\* The boxplot of column A of the scenario file is on the page.
C2_Witness == ScenarioBoxplot /\ Settled /\ tab = "boxplots"

\* The duplicates view is shown for an uploaded file.
DuplicatesShown == tabContent.kind = "duplicates" /\ contentOf # None

\* C3: the duplicates view flags a row exactly when an earlier row has the same
\* value in every column, missing values included: the first of a group of
\* equal rows is not flagged, every later one is, the table lists the flagged
\* rows in order and the count is their number; a file without repeated rows
\* has count 0, and a copy of one of the rows, inserted anywhere, raises the
\* count by exactly 1.
C3_DuplicateReport ==
    DuplicatesShown =>
        LET file == contentOf[1]
            df   == Frame(variant, file)
            n    == Len(file.rows)
            flagged(r) == \E q \in 1..(r - 1) : file.rows[q] = file.rows[r]
            first(r)   == \A q \in 1..(r - 1) : file.rows[q] # file.rows[r]
            flaggedRows == Pick(df.rows, [r \in 1..n |-> flagged(r)])
        IN /\ Len(df.rows) = n
           /\ tabContent.count = Cardinality({r \in 1..n : flagged(r)})
           /\ tabContent.count = Len(flaggedRows)
           /\ tabContent.count = n - Cardinality({r \in 1..n : first(r)})
           /\ tabContent.table =
                 IF flaggedRows = << >> THEN None ELSE Some(flaggedRows)
           /\ (\A r \in 1..n : first(r)) => tabContent.count = 0
           /\ (Settled /\ tab = "duplicates") =>
                 \A r \in 1..n : \A j \in 0..n :
                     duplicate_count(Frame(variant,
                                           File(file.cols,
                                                InsertAt(file.rows, j, file.rows[r]))))
                         = tabContent.count + 1

\* A duplicates view with two flagged rows, one of them holding a missing value,
\* after a first row that is not flagged.
C3_Witness ==
    /\ DuplicatesShown
    /\ tabContent.count = 2
    /\ \E r \in 1..2 : \E i \in 1..2 : tabContent.table[1][r][i].k = "null"
    /\ tabContent.table[1][1] # tabContent.table[1][2]

\* C4, as stated: whenever the correlation view of a loaded file without numeric
\* columns has been rendered, it is the "no numerical columns" warning and not
\* a heatmap, in each of the three variants.
C4_NoNumericColumnsWarning ==
    (/\ Settled
     /\ tab = "correlation"
     /\ contents # None
     /\ num_cols(Frame(variant, contents[1])) = << >>)
        => tabContent.kind = "warning"

\* C5, as stated: update_boxplot never raises, and a boxplot is only ever
\* computed for a numeric column of the file it is computed from.
C5_InvalidColumnNeverCrashes ==
    /\ "update_boxplot" \notin crashed
    /\ figure.kind = "box" =>
          figure.column \in Range(num_cols(Frame(variant, figureOf[1])))

\* C6, as stated (app.py): with a file of zero rows loaded, every view is
\* rendered without a callback raising, the overview reports 0 rows and the
\* file's column count, the missing counts and the duplicate count are zero.
C6_EmptyDatasetWellDefined ==
    (/\ variant = "app"
     /\ Settled
     /\ contents # None
     /\ contents[1].rows = << >>)
        => /\ crashed = {}
           /\ tabContent.kind = "overview" =>
                 /\ tabContent.rows = 0
                 /\ tabContent.cols = Len(contents[1].cols)
           /\ tabContent.kind = "bar" =>
                 \A i \in 1..Len(tabContent.data) : tabContent.data[i].Missing = 0
           /\ tabContent.kind = "duplicates" => tabContent.count = 0

\* The missing-values view is shown for an uploaded file.
MissingShown == tabContent.kind = "bar" /\ contentOf # None

\* C7, as stated: the missing-values view has one (column, count) pair for every
\* column of the uploaded file, numeric or not, in the file's column order, the
\* count being the number of missing entries of the column; the counts add up
\* to rows * columns minus the number of non-missing cells of the file.
C7_MissingValueReport ==
    MissingShown =>
        LET file == contentOf[1]
            rows == Len(file.rows)
            cols == Len(file.cols)
            nullsOf(i) == Cardinality({r \in 1..rows : file.rows[r][i].k = "null"})
            nonNull == Cardinality({<<r, i>> \in (1..rows) \X (1..cols) :
                                       file.rows[r][i].k # "null"})
        IN /\ Len(tabContent.data) = cols
           /\ \A i \in 1..Len(tabContent.data) :
                 /\ i <= cols
                 /\ tabContent.data[i].Feature = file.cols[i]
                 /\ tabContent.data[i].Missing = nullsOf(i)
           /\ SumSeq([i \in 1..Len(tabContent.data) |-> tabContent.data[i].Missing])
                 = rows * cols - nonNull

\* C8, as stated (app.py): once the callbacks have run, the tab content and the
\* boxplot are computed from the file uploaded last.
C8_LatestUploadOnly ==
    (variant = "app" /\ Settled /\ contents # None)
        => /\ contentOf = contents
           /\ figure.kind = "box" => figureOf = contents

\* C9: as long as no file has been uploaded, the tab content is the upload
\* prompt whatever tab is selected, the dropdown options are empty, the figure
\* is a placeholder (the one update_boxplot returns, where it runs) and hidden
\* in app2.py, and nothing was computed from any file.
C9_NoUploadNoAnalysis ==
    contents = None =>
        /\ tabContent.kind \in {"blank", "prompt"}
        /\ Settled => tabContent = Prompt
        /\ ddOptions = << >>
        /\ filterOptions = << >>
        /\ figure.kind \in {"unset", "empty", "no_data"}
        /\ (Settled /\ variant = "app2") =>
              figure = [kind |-> "empty"] /\ graphStyle = "none" /\ ddStyle = "none"
        /\ stored = None /\ contentOf = None /\ figureOf = None
        /\ crashed = {}

\* Nothing uploaded, a tab value that is not one of the five selected, and the
\* callbacks have run.
C9_Witness ==
    /\ contents = None
    /\ Settled
    /\ tab = "unknown"
    /\ tabContent = Prompt

\* C10, as stated (app2.py): once the callbacks have run, the boxplot graph is
\* displayed only while the boxplots tab is selected.
C10_GraphOnlyOnBoxplotsTab ==
    (variant = "app2" /\ Settled /\ graphStyle = "block") => tab = "boxplots"

====
